---- MODULE Spec2Model ----
(***************************************************************************)
(* Model of scripts/query_completed_tasks.py: one run of the report script *)
(* against the shared SQLite data store, with the external system that     *)
(* owns the tasks table writing to it while the run is in progress.        *)
(*                                                                         *)
(* Text values (timestamps, prompts, rendered fields) are sequences of     *)
(* one-character strings, so that slicing, replacing, parsing and          *)
(* comparing are computed character by character as the code does.         *)
(* SQL NULL / Python None is the value Null.                               *)
(***************************************************************************)
EXTENDS Integers, Sequences, FiniteSets, TLC

\* ------------------------------------------------------------------------
\* Bounds of the model
\* ------------------------------------------------------------------------

\* ids of the tasks table are 1..MaxRows
MaxRows == 3

\* number of commits by the external writer during one run
MaxWrites == 1

\* prompts of the truncation fixtures have lengths 0..MaxPromptLen
MaxPromptLen == 202

\* ------------------------------------------------------------------------
\* Program constants
\* ------------------------------------------------------------------------

\* task['prompt'][:200] and len(task['prompt']) > 200
PromptLimit == 200

\* ------------------------------------------------------------------------
\* Text
\* ------------------------------------------------------------------------

Null == <<"NULL">>

Digits == {"0", "1", "2", "3", "4", "5", "6", "7", "8", "9"}

DigitVal(c) ==
  CASE c = "0" -> 0 [] c = "1" -> 1 [] c = "2" -> 2 [] c = "3" -> 3
    [] c = "4" -> 4 [] c = "5" -> 5 [] c = "6" -> 6 [] c = "7" -> 7
    [] c = "8" -> 8 [] c = "9" -> 9

DigitChar(n) ==
  CASE n = 0 -> "0" [] n = 1 -> "1" [] n = 2 -> "2" [] n = 3 -> "3"
    [] n = 4 -> "4" [] n = 5 -> "5" [] n = 6 -> "6" [] n = 7 -> "7"
    [] n = 8 -> "8" [] n = 9 -> "9"

\* byte value of a character (the order memcmp compares text in)
Code(c) ==
  CASE c = " " -> 32 [] c = "+" -> 43 [] c = "-" -> 45 [] c = "." -> 46
    [] c \in Digits -> 48 + DigitVal(c)
    [] c = ":" -> 58 [] c = "T" -> 84 [] c = "Z" -> 90
    [] c = "a" -> 97 [] c = "b" -> 98 [] c = "d" -> 100 [] c = "e" -> 101
    [] c = "n" -> 110 [] c = "o" -> 111 [] c = "t" -> 116

\* s[i:j] of Python with 0 <= i, as a 1-based sequence: characters i+1..j
Slice(s, i, j) ==
  SubSeq(s, i + 1, IF j < Len(s) THEN j ELSE Len(s))

AllDigits(s) == \A i \in 1..Len(s) : s[i] \in Digits

RECURSIVE ToInt(_)
ToInt(s) ==
  IF s = <<>> THEN 0
  ELSE 10 * ToInt(SubSeq(s, 1, Len(s) - 1)) + DigitVal(s[Len(s)])

TwoDigits(n) == <<DigitChar(n \div 10), DigitChar(n % 10)>>

FourDigits(n) ==
  <<DigitChar(n \div 1000), DigitChar((n \div 100) % 10),
    DigitChar((n \div 10) % 10), DigitChar(n % 10)>>

\* dt_string.replace('Z', '+00:00'): every occurrence is replaced
RECURSIVE ReplaceZ(_)
ReplaceZ(s) ==
  IF s = <<>> THEN <<>>
  ELSE (IF Head(s) = "Z" THEN <<"+", "0", "0", ":", "0", "0">> ELSE <<Head(s)>>) \o ReplaceZ(Tail(s))

\* ------------------------------------------------------------------------
\* datetime.fromisoformat and strftime, as format_datetime uses them
\* ------------------------------------------------------------------------

IsLeap(y) == (y % 4 = 0 /\ y % 100 # 0) \/ y % 400 = 0

DaysInMonth(y, m) ==
  IF m = 2 THEN (IF IsLeap(y) THEN 29 ELSE 28)
  ELSE IF m \in {4, 6, 9, 11} THEN 30 ELSE 31

ParseFail == [ok |-> FALSE]

\* YYYY-MM-DD
ParseDate(s) ==
  IF /\ Len(s) = 10
     /\ AllDigits(SubSeq(s, 1, 4)) /\ s[5] = "-"
     /\ AllDigits(SubSeq(s, 6, 7)) /\ s[8] = "-"
     /\ AllDigits(SubSeq(s, 9, 10))
  THEN LET y == ToInt(SubSeq(s, 1, 4))
           m == ToInt(SubSeq(s, 6, 7))
           d == ToInt(SubSeq(s, 9, 10))
       IN IF y >= 1 /\ m \in 1..12 /\ d >= 1 /\ d <= DaysInMonth(y, m)
          THEN [ok |-> TRUE, year |-> y, month |-> m, day |-> d]
          ELSE ParseFail
  ELSE ParseFail

\* HH, HH:MM or HH:MM:SS
ParseClock(s) ==
  IF /\ Len(s) \in {2, 5, 8}
     /\ \A i \in 1..Len(s) : IF i % 3 = 0 THEN s[i] = ":" ELSE s[i] \in Digits
  THEN LET h  == ToInt(SubSeq(s, 1, 2))
           mi == IF Len(s) >= 5 THEN ToInt(SubSeq(s, 4, 5)) ELSE 0
           se == IF Len(s) >= 8 THEN ToInt(SubSeq(s, 7, 8)) ELSE 0
       IN IF h < 24 /\ mi < 60 /\ se < 60
          THEN [ok |-> TRUE, hour |-> h, minute |-> mi, second |-> se]
          ELSE ParseFail
  ELSE ParseFail

\* position of the first "+" or "-" of s, 0 when there is none
SignPos(s) ==
  IF \E i \in 1..Len(s) : s[i] \in {"+", "-"}
  THEN CHOOSE i \in 1..Len(s) :
         /\ s[i] \in {"+", "-"}
         /\ \A j \in 1..(i - 1) : s[j] \notin {"+", "-"}
  ELSE 0

\* the time of day with an optional UTC offset +HH:MM or -HH:MM
ParseTime(s) ==
  LET p     == SignPos(s)
      clock == ParseClock(IF p = 0 THEN s ELSE SubSeq(s, 1, p - 1))
      off   == IF p = 0 THEN [ok |-> TRUE, hour |-> 0, minute |-> 0, second |-> 0]
               ELSE ParseClock(SubSeq(s, p + 1, Len(s)))
  IN IF clock.ok /\ off.ok /\ (p = 0 \/ Len(s) - p \in {5, 8}) THEN clock ELSE ParseFail

\* datetime.fromisoformat: a date, then optionally one separator character
\* and a time; a record with ok = FALSE stands for the ValueError
fromisoformat(s) ==
  IF Len(s) < 10 THEN ParseFail
  ELSE LET date == ParseDate(SubSeq(s, 1, 10))
           time == IF Len(s) = 10
                   THEN [ok |-> TRUE, hour |-> 0, minute |-> 0, second |-> 0]
                   ELSE ParseTime(SubSeq(s, 12, Len(s)))
       IN IF date.ok /\ time.ok
          THEN [ok |-> TRUE, year |-> date.year, month |-> date.month,
                day |-> date.day, hour |-> time.hour, minute |-> time.minute,
                second |-> time.second]
          ELSE ParseFail

MonthName(m) ==
  CASE m = 1 -> <<"J", "a", "n", "u", "a", "r", "y">> [] m = 2 -> <<"F", "e", "b", "r", "u", "a", "r", "y">> [] m = 3 -> <<"M", "a", "r", "c", "h">>
    [] m = 4 -> <<"A", "p", "r", "i", "l">> [] m = 5 -> <<"M", "a", "y">> [] m = 6 -> <<"J", "u", "n", "e">>
    [] m = 7 -> <<"J", "u", "l", "y">> [] m = 8 -> <<"A", "u", "g", "u", "s", "t">> [] m = 9 -> <<"S", "e", "p", "t", "e", "m", "b", "e", "r">>
    [] m = 10 -> <<"O", "c", "t", "o", "b", "e", "r">> [] m = 11 -> <<"N", "o", "v", "e", "m", "b", "e", "r">> [] m = 12 -> <<"D", "e", "c", "e", "m", "b", "e", "r">>

\* dt.strftime("%B %d, %Y at %H:%M:%S")
strftime(dt) ==
  MonthName(dt.month) \o <<" ">> \o TwoDigits(dt.day) \o <<",", " ">> \o FourDigits(dt.year)
    \o <<" ", "a", "t", " ">> \o TwoDigits(dt.hour) \o <<":">> \o TwoDigits(dt.minute)
    \o <<":">> \o TwoDigits(dt.second)

\* "if not dt_string": None and the empty string are falsy
Falsy(v) == v = Null \/ v = <<>>

\* a faulty variant: an unparseable timestamp is shown as N/A
format_datetime_NoFallback(dt_string) ==
  IF Falsy(dt_string) THEN <<"N", "/", "A">>
  ELSE LET dt == fromisoformat(ReplaceZ(dt_string))
       IN IF dt.ok THEN strftime(dt) ELSE <<"N", "/", "A">>

format_datetime(dt_string) ==
  IF Falsy(dt_string) THEN <<"N", "/", "A">>
  ELSE LET dt == fromisoformat(ReplaceZ(dt_string))
       IN IF dt.ok THEN strftime(dt) ELSE dt_string

\* ------------------------------------------------------------------------
\* The tasks table and the data store file
\* ------------------------------------------------------------------------

Ids == 1..MaxRows

\* 0 = ready, 1 = complete, 4 = in progress, 2 = a status the report does not classify
Statuses == {0, 1, 2, 4}

\* the statuses the owner of the table moves a task through
LifecycleStatuses == {0, 1, 4}

tsA == <<"2", "0", "2", "4", "-", "0", "1", "-", "1", "5", "T", "1", "0", ":", "3", "0", ":", "0", "0", "Z">>
tsB == <<"2", "0", "2", "4", "-", "0", "1", "-", "1", "6", "T", "0", "9", ":", "0", "0", ":", "0", "0", "Z">>
shortPrompt == <<"a", "b", "c">>

Row(i, st, cr, up, pr) ==
  [id |-> i, uuid |-> <<"u", DigitChar(i % 10)>>, prompt |-> pr, status |-> st,
   createdat |-> cr, updatedat |-> up, order |-> i]

\* a row as the external system inserts it
PlainRow(i, st) == Row(i, st, tsA, tsA, shortPrompt)

\* tables over the ids 1..n: each id absent or one of the rows with that id
RECURSIVE TablesUpTo(_, _)
TablesUpTo(rows, n) ==
  IF n = 0 THEN {{}}
  ELSE {T \cup c : T \in TablesUpTo(rows, n - 1),
                   c \in {{}} \cup {{r} : r \in {x \in rows : x.id = n}}}

TablesOf(rows) == TablesUpTo(rows, MaxRows)

\* rows of every status; the completed ones with every kind of updatedat
\* (null, empty, two timestamps) and with a text or a null prompt
RichRows ==
  {PlainRow(i, st) : i \in Ids, st \in Statuses \ {1}}
    \cup {Row(i, 1, tsA, up, pr) : i \in Ids, up \in {Null, <<>>, tsA, tsB},
                                   pr \in {Null, shortPrompt}}

PlainRows == {PlainRow(i, st) : i \in Ids, st \in LifecycleStatuses}

\* a prompt of n characters, no two neighbours alike
PromptOfLen(n) == [i \in 1..n |-> IF i % 2 = 1 THEN "a" ELSE "b"]

PromptRows == {Row(1, 1, tsA, tsB, PromptOfLen(n)) : n \in 0..MaxPromptLen}

\* timestamps put together from a date, a clock and a suffix; each part is
\* given as text together with what it denotes
Years  == {[txt |-> <<"2", "0", "2", "4">>, val |-> 2024, feb |-> 29],
           [txt |-> <<"2", "0", "2", "3">>, val |-> 2023, feb |-> 28]}
Months == {[txt |-> <<"0", "1">>, val |-> 1], [txt |-> <<"0", "2">>, val |-> 2],
           [txt |-> <<"1", "2">>, val |-> 12], [txt |-> <<"1", "3">>, val |-> 13]}
Days   == {[txt |-> <<"1", "5">>, val |-> 15], [txt |-> <<"2", "9">>, val |-> 29],
           [txt |-> <<"3", "1">>, val |-> 31], [txt |-> <<"0", "0">>, val |-> 0]}
Clocks == {[txt |-> <<>>, h |-> 0, m |-> 0, s |-> 0],
           [txt |-> <<"T", "1", "0", ":", "3", "0", ":", "0", "0">>, h |-> 10, m |-> 30, s |-> 0],
           [txt |-> <<" ", "2", "3", ":", "5", "9", ":", "5", "9">>, h |-> 23, m |-> 59, s |-> 59],
           [txt |-> <<"T", "1", "0", ":", "3", "0">>, h |-> 10, m |-> 30, s |-> 0],
           [txt |-> <<"T", "2", "5", ":", "0", "0", ":", "0", "0">>, h |-> 25, m |-> 0, s |-> 0],
           [txt |-> <<"T", "1", "0", ":", "6", "0", ":", "0", "0">>, h |-> 10, m |-> 60, s |-> 0]}
Suffixes == {<<>>, <<"Z">>, <<"+", "0", "5", ":", "3", "0">>}

Stamps ==
  {[y |-> y, mo |-> mo, d |-> d, c |-> c, z |-> z] :
     y \in Years, mo \in Months, d \in Days, c \in Clocks, z \in Suffixes}

StampText(p) == p.y.txt \o <<"-">> \o p.mo.txt \o <<"-">> \o p.d.txt \o p.c.txt \o p.z

OtherStamps == {Null, <<>>, <<"n", "o", "t", "-", "a", "-", "d", "a", "t", "e">>, <<"Z">>}

StampRows ==
  {Row(1, 1, cr, tsA, shortPrompt) : cr \in {StampText(p) : p \in Stamps} \cup OtherStamps}

\* state of the data store path: the directory is missing, the directory
\* exists without the file, the file exists without a tasks table, or the
\* file holds the tasks table
FsStates == {"nodir", "nofile", "notable", "ok"}

\* ------------------------------------------------------------------------
\* The queries
\* ------------------------------------------------------------------------

\* memcmp order of two texts, the shorter first when one is a prefix
TextLess(a, b) ==
  \/ \E i \in 1..Len(a) :
       /\ i <= Len(b)
       /\ \A j \in 1..(i - 1) : a[j] = b[j]
       /\ Code(a[i]) < Code(b[i])
  \/ /\ Len(a) < Len(b)
     /\ \A j \in 1..Len(a) : a[j] = b[j]

\* the order SQLite sorts values in: NULL before every text
SqlLess(x, y) ==
  IF x = Null THEN y # Null
  ELSE IF y = Null THEN FALSE
  ELSE TextLess(x, y)

\* a faulty variant: ties are broken by id descending
Precedes_IdDescending(a, b) ==
  \/ SqlLess(b.updatedat, a.updatedat)
  \/ a.updatedat = b.updatedat /\ a.id > b.id

\* ORDER BY updatedat DESC, id ASC
Precedes(a, b) ==
  \/ SqlLess(b.updatedat, a.updatedat)
  \/ a.updatedat = b.updatedat /\ a.id < b.id

RECURSIVE OrderRows(_)
OrderRows(S) ==
  IF S = {} THEN <<>>
  ELSE LET first == CHOOSE r \in S : \A o \in S \ {r} : Precedes(r, o)
       IN <<first>> \o OrderRows(S \ {first})

\* a faulty variant: rows in progress are selected too
SelectCompleted_AnyStatus(T) == OrderRows({r \in T : r.status \in {1, 4}})

\* SELECT ... FROM tasks WHERE status = 1 ORDER BY updatedat DESC, id ASC
SelectCompleted(T) == OrderRows({r \in T : r.status = 1})

\* SELECT COUNT(*) FROM tasks WHERE status = st
CountStatus(T, st) == Cardinality({r \in T : r.status = st})

\* SELECT COUNT(*) FROM tasks
CountAll(T) == Cardinality(T)

\* a faulty variant: the marker is appended from 200 characters on
PromptShown_AtLimit(p) ==
  Slice(p, 0, PromptLimit) \o (IF Len(p) >= PromptLimit THEN <<".", ".", ".">> ELSE <<>>)

\* task['prompt'][:200] followed by '...' if len(task['prompt']) > 200
PromptShown(p) ==
  Slice(p, 0, PromptLimit) \o (IF Len(p) > PromptLimit THEN <<".", ".", ".">> ELSE <<>>)

\* ------------------------------------------------------------------------
\* State
\* ------------------------------------------------------------------------

VARIABLES
  fs,                 \* state of the data store path (FsStates)
  tasks,              \* the tasks table as committed
  budget,             \* commits the external writer may still make in this run
  modified,           \* a commit changed the tasks table during the run
  pc,                 \* the statement of the script that runs next
  conn,               \* "none", "open" or "closed"
  nq,                 \* how many of the five queries have returned
  completed_tasks,    \* cursor.fetchall() of the listing
  completed_count,
  ready_count,
  in_progress_count,
  total_count,
  idx,                \* entries of the listing rendered in full
  stdout,             \* lines written to standard output
  stderr,             \* lines written to standard error
  exitcode,           \* Null while the process runs, then its exit status
  raised              \* "none", or the exception class caught at the top level

locals == <<completed_tasks, completed_count, ready_count, in_progress_count, total_count>>
out == <<stdout, stderr, exitcode, raised>>
env == <<fs, tasks, budget, modified>>
vars == <<fs, tasks, budget, modified, pc, conn, nq, completed_tasks, completed_count,
          ready_count, in_progress_count, total_count, idx, stdout, stderr,
          exitcode, raised>>

\* the environments a run starts in:
\*   - the data store path in any state but with no usable table
\*   - a table of rich rows nobody writes to during the run
\*   - a table of plain rows the external system commits to during the run
\*   - one completed row with a prompt of every length, or with a created
\*     timestamp of every form
Environments ==
  {[fs |-> f, tasks |-> {}, budget |-> 0] : f \in FsStates \ {"ok"}}
    \cup {[fs |-> "ok", tasks |-> T, budget |-> 0] : T \in TablesOf(RichRows)}
    \cup {[fs |-> "ok", tasks |-> T, budget |-> MaxWrites] : T \in TablesOf(PlainRows)}
    \cup {[fs |-> "ok", tasks |-> {r}, budget |-> 0] : r \in PromptRows \cup StampRows}

Init ==
  /\ \E e \in Environments : fs = e.fs /\ tasks = e.tasks /\ budget = e.budget
  /\ modified = FALSE
  /\ pc = "connect"
  /\ conn = "none"
  /\ nq = 0
  /\ completed_tasks = <<>>
  /\ completed_count = Null
  /\ ready_count = Null
  /\ in_progress_count = Null
  /\ total_count = Null
  /\ idx = 0
  /\ stdout = <<>>
  /\ stderr = <<>>
  /\ exitcode = Null
  /\ raised = "none"

\* ------------------------------------------------------------------------
\* The top-level handlers
\* ------------------------------------------------------------------------

\* a faulty variant: the handlers exit with status 0
Abort_ExitZero(kind) ==
  /\ stderr' = IF kind = "sqlite3.Error"
               THEN Append(stderr, <<"Database error">>)
               ELSE stderr \o << <<"Error">>, <<"Traceback">> >>
  /\ exitcode' = 0
  /\ raised' = kind
  /\ pc' = "done"

\* except sqlite3.Error: print to stderr, sys.exit(1)
\* except Exception: print to stderr, traceback.print_exc(), sys.exit(1)
Abort(kind) ==
  /\ stderr' = IF kind = "sqlite3.Error"
               THEN Append(stderr, <<"Database error">>)
               ELSE stderr \o << <<"Error">>, <<"Traceback">> >>
  /\ exitcode' = 1
  /\ raised' = kind
  /\ pc' = "done"

\* whether a statement run on the connection raises sqlite3.Error: always
\* when the file holds no tasks table, and possibly (locked database, I/O
\* error) when it does
QueryRaises == IF fs = "ok" THEN BOOLEAN ELSE {TRUE}

\* ------------------------------------------------------------------------
\* The statements of query_completed_tasks
\* ------------------------------------------------------------------------

\* a faulty variant: the banner is written before the queries run
Connect_BannerFirst ==
  /\ pc = "connect"
  /\ IF fs = "nodir"
     THEN /\ Abort("sqlite3.Error")
          /\ UNCHANGED <<fs, conn, stdout>>
     ELSE /\ fs' = IF fs = "nofile" THEN "notable" ELSE fs
          /\ conn' = "open"
          /\ pc' = "q1"
          /\ stdout' = stdout \o << <<"rule">>, <<"title">>, <<"rule">> >>
          /\ UNCHANGED <<stderr, exitcode, raised>>
  /\ UNCHANGED <<tasks, budget, modified, nq, locals, idx>>

\* conn = sqlite3.connect(DB_PATH); conn.cursor()
\* the default open mode is read-write-create: a missing file is created empty
Connect ==
  /\ pc = "connect"
  /\ IF fs = "nodir"
     THEN /\ Abort("sqlite3.Error")
          /\ UNCHANGED <<fs, conn, stdout>>
     ELSE /\ fs' = IF fs = "nofile" THEN "notable" ELSE fs
          /\ conn' = "open"
          /\ pc' = "q1"
          /\ UNCHANGED out
  /\ UNCHANGED <<tasks, budget, modified, nq, locals, idx>>

\* cursor.execute(SELECT ... WHERE status = 1 ORDER BY ...); fetchall()
QueryCompleted ==
  /\ pc = "q1"
  /\ \E err \in QueryRaises :
       IF err
       THEN /\ Abort("sqlite3.Error")
            /\ UNCHANGED <<stdout, nq, completed_tasks>>
       ELSE /\ completed_tasks' = SelectCompleted(tasks)
            /\ nq' = nq + 1
            /\ pc' = "q2"
            /\ UNCHANGED out
  /\ UNCHANGED <<env, conn, completed_count, ready_count, in_progress_count,
                 total_count, idx>>

\* a faulty variant: the completed count is taken from the snapshot the listing read
CountCompleted_Snapshot ==
  /\ pc = "q2"
  /\ \E err \in QueryRaises :
       IF err
       THEN /\ Abort("sqlite3.Error")
            /\ UNCHANGED <<stdout, nq, completed_count>>
       ELSE /\ completed_count' = Len(completed_tasks)
            /\ nq' = nq + 1
            /\ pc' = "q3"
            /\ UNCHANGED out
  /\ UNCHANGED <<env, conn, completed_tasks, ready_count, in_progress_count,
                 total_count, idx>>

\* cursor.execute("SELECT COUNT(*) FROM tasks WHERE status = 1")
CountCompleted ==
  /\ pc = "q2"
  /\ \E err \in QueryRaises :
       IF err
       THEN /\ Abort("sqlite3.Error")
            /\ UNCHANGED <<stdout, nq, completed_count>>
       ELSE /\ completed_count' = CountStatus(tasks, 1)
            /\ nq' = nq + 1
            /\ pc' = "q3"
            /\ UNCHANGED out
  /\ UNCHANGED <<env, conn, completed_tasks, ready_count, in_progress_count,
                 total_count, idx>>

\* cursor.execute("SELECT COUNT(*) FROM tasks WHERE status = 0")
CountReady ==
  /\ pc = "q3"
  /\ \E err \in QueryRaises :
       IF err
       THEN /\ Abort("sqlite3.Error")
            /\ UNCHANGED <<stdout, nq, ready_count>>
       ELSE /\ ready_count' = CountStatus(tasks, 0)
            /\ nq' = nq + 1
            /\ pc' = "q4"
            /\ UNCHANGED out
  /\ UNCHANGED <<env, conn, completed_tasks, completed_count, in_progress_count,
                 total_count, idx>>

\* cursor.execute("SELECT COUNT(*) FROM tasks WHERE status = 4")
CountInProgress ==
  /\ pc = "q4"
  /\ \E err \in QueryRaises :
       IF err
       THEN /\ Abort("sqlite3.Error")
            /\ UNCHANGED <<stdout, nq, in_progress_count>>
       ELSE /\ in_progress_count' = CountStatus(tasks, 4)
            /\ nq' = nq + 1
            /\ pc' = "q5"
            /\ UNCHANGED out
  /\ UNCHANGED <<env, conn, completed_tasks, completed_count, ready_count,
                 total_count, idx>>

\* cursor.execute("SELECT COUNT(*) FROM tasks")
CountTotal ==
  /\ pc = "q5"
  /\ \E err \in QueryRaises :
       IF err
       THEN /\ Abort("sqlite3.Error")
            /\ UNCHANGED <<stdout, nq, total_count>>
       ELSE /\ total_count' = CountAll(tasks)
            /\ nq' = nq + 1
            /\ pc' = "close"
            /\ UNCHANGED out
  /\ UNCHANGED <<env, conn, completed_tasks, completed_count, ready_count,
                 in_progress_count, idx>>

\* conn.close()
Close ==
  /\ pc = "close"
  /\ conn' = "closed"
  /\ pc' = "header"
  /\ UNCHANGED <<env, nq, locals, idx, out>>

\* a faulty variant: the summary heading is written with the header, before the listing
DisplayHeader_SummaryFirst ==
  /\ pc = "header"
  /\ stdout' = stdout \o << <<"rule">>, <<"title">>, <<"rule">>,
                            <<"Total Completed Tasks", completed_count>>,
                            <<"Task Status Summary">> >>
                 \o (IF completed_tasks # <<>>
                     THEN << <<"Completed Task Details">>, <<"dashes">> >>
                     ELSE << <<"No completed tasks found">> >>)
  /\ pc' = IF completed_tasks # <<>> THEN "loop" ELSE "summary"
  /\ UNCHANGED <<env, conn, nq, locals, idx, stderr, exitcode, raised>>

\* the banner and "Total Completed Tasks: {completed_count}", then either the
\* heading of the listing or the line saying that there is none
DisplayHeader ==
  /\ pc = "header"
  /\ stdout' = stdout \o << <<"rule">>, <<"title">>, <<"rule">>,
                            <<"Total Completed Tasks", completed_count>> >>
                 \o (IF completed_tasks # <<>>
                     THEN << <<"Completed Task Details">>, <<"dashes">> >>
                     ELSE << <<"No completed tasks found">> >>)
  /\ pc' = IF completed_tasks # <<>> THEN "loop" ELSE "summary"
  /\ UNCHANGED <<env, conn, nq, locals, idx, stderr, exitcode, raised>>

\* the lines of one entry up to the prompt
EntryLines(i, task) ==
  << <<"Task", i>>,
     <<"ID", task.id>>,
     <<"UUID", task.uuid>>,
     <<"Status", task.status>>,
     <<"Created", format_datetime(task.createdat)>>,
     <<"Completed", format_datetime(task.updatedat)>>,
     <<"Order", task.order>> >>

\* one pass of "for idx, task in enumerate(completed_tasks, 1)": the prompt
\* line subscripts and measures task['prompt'], which raises TypeError on None
\* after the lines before it have been written
DisplayTask ==
  /\ pc = "loop"
  /\ idx < Len(completed_tasks)
  /\ LET task == completed_tasks[idx + 1]
     IN IF task.prompt = Null
        THEN /\ stdout' = stdout \o EntryLines(idx + 1, task)
             /\ Abort("Exception")
             /\ UNCHANGED idx
        ELSE /\ stdout' = stdout \o EntryLines(idx + 1, task)
                            \o << <<"Prompt", PromptShown(task.prompt)>> >>
             /\ idx' = idx + 1
             /\ pc' = IF idx + 1 = Len(completed_tasks) THEN "summary" ELSE "loop"
             /\ UNCHANGED <<stderr, exitcode, raised>>
  /\ UNCHANGED <<env, conn, nq, locals>>

\* the summary block
DisplaySummary ==
  /\ pc = "summary"
  /\ stdout' = stdout \o << <<"rule">>, <<"Task Status Summary">>,
                            <<"Ready", ready_count>>,
                            <<"Complete", completed_count>>,
                            <<"In Progress", in_progress_count>>,
                            <<"Total", total_count>>, <<"rule">> >>
  /\ pc' = "return"
  /\ UNCHANGED <<env, conn, nq, locals, idx, stderr, exitcode, raised>>

\* return completed_tasks; sys.exit(0)
ExitOk ==
  /\ pc = "return"
  /\ exitcode' = 0
  /\ pc' = "done"
  /\ UNCHANGED <<env, conn, nq, locals, idx, stdout, stderr, raised>>

\* ------------------------------------------------------------------------
\* The external system that owns the tasks table
\* ------------------------------------------------------------------------

\* one commit: a row is inserted, deleted or given another status.  Commits
\* are taken between two of the five reads; one before the first read is a
\* run on another table, one after the last read is never seen.
ExternalWrite ==
  /\ budget > 0
  /\ fs = "ok"
  /\ pc \in {"q2", "q3", "q4", "q5"}
  /\ \E i \in Ids :
       LET old == {r \in tasks : r.id = i}
       IN \E new \in {{}} \cup {{PlainRow(i, st)} : st \in LifecycleStatuses} :
            /\ new # old
            /\ tasks' = (tasks \ old) \cup new
  /\ budget' = budget - 1
  /\ modified' = TRUE
  /\ UNCHANGED <<fs, pc, conn, nq, locals, idx, out>>

Run ==
  \/ Connect
  \/ QueryCompleted
  \/ CountCompleted
  \/ CountReady
  \/ CountInProgress
  \/ CountTotal
  \/ Close
  \/ DisplayHeader
  \/ DisplayTask
  \/ DisplaySummary
  \/ ExitOk

Next == Run \/ ExternalWrite

Spec == Init /\ [][Next]_vars

\* ------------------------------------------------------------------------
\* Reading the report off standard output
\* ------------------------------------------------------------------------

HasLine(k) == \E i \in 1..Len(stdout) : stdout[i][1] = k

LinesOf(k) == {i \in 1..Len(stdout) : stdout[i][1] = k}

\* an entry of the listing: the eight lines of one task, from the numbered
\* heading to the prompt excerpt
EntryKinds == <<"Task", "ID", "UUID", "Status", "Created", "Completed", "Order", "Prompt">>

EntryAt(i) ==
  /\ i + Len(EntryKinds) - 1 <= Len(stdout)
  /\ \A k \in 1..Len(EntryKinds) : stdout[i + k - 1][1] = EntryKinds[k]

Entries == {i \in 1..Len(stdout) : EntryAt(i)}

\* the field of kind k of the entry that starts at line i
Field(i, k) ==
  stdout[i + (CHOOSE n \in 1..Len(EntryKinds) : EntryKinds[n] = k) - 1][2]

HeaderShown ==
  /\ Len(stdout) >= 4
  /\ stdout[1] = <<"rule">> /\ stdout[2] = <<"title">> /\ stdout[3] = <<"rule">>
  /\ stdout[4][1] = "Total Completed Tasks"

SummaryShown ==
  /\ HasLine("Task Status Summary")
  /\ HasLine("Ready") /\ HasLine("Complete") /\ HasLine("In Progress") /\ HasLine("Total")
  /\ stdout[Len(stdout)] = <<"rule">>

Completed == {r \in tasks : r.status = 1}

\* one entry per completed row and none for another row, numbered 1..n in
\* the order printed, n the printed total; the no-tasks line exactly when n = 0
ListsCompletedRows ==
  LET n == Cardinality(Entries)
  IN /\ \A r \in Completed :
          Cardinality({i \in Entries : Field(i, "ID") = r.id}) = 1
     /\ \A i \in Entries : \E r \in Completed : Field(i, "ID") = r.id
     /\ {Field(i, "Task") : i \in Entries} = 1..n
     /\ \A i \in Entries, j \in Entries : i < j => Field(i, "Task") < Field(j, "Task")
     /\ HeaderShown /\ stdout[4][2] = n
     /\ (n = 0) = HasLine("No completed tasks found")
     /\ Cardinality(LinesOf("Task")) = n

\* ------------------------------------------------------------------------
\* C1
\* ------------------------------------------------------------------------

\* C1: when the run has ended, by return or by either handler, a connection
\* that was opened has been closed.
C1_ConnectionClosedAtExit == pc = "done" => conn # "open"

\* ------------------------------------------------------------------------
\* C2
\* ------------------------------------------------------------------------

WholeReport ==
  /\ HeaderShown
  /\ IF completed_tasks = <<>>
     THEN HasLine("No completed tasks found")
     ELSE Cardinality(Entries) = Len(completed_tasks)
  /\ SummaryShown

\* C3: at exit the status is 0 exactly when all five queries returned and the
\* whole report was printed; an error caught by either handler gives status 1
\* with a message on standard error.
C3_ExitStatus ==
  pc = "done" =>
    /\ exitcode \in {0, 1}
    /\ (exitcode = 0) = (nq = 5 /\ WholeReport)
    /\ (exitcode = 1) = (raised # "none")
    /\ raised # "none" => stderr # <<>>

C3_Witness == pc = "done" /\ exitcode = 1 /\ raised = "sqlite3.Error" /\ nq = 3

\* ------------------------------------------------------------------------
\* C4
\* ------------------------------------------------------------------------

\* C4: nothing is written to standard output before the fifth query has
\* returned; a run that meets a data store error (a missing file included)
\* ends with empty standard output, a message on standard error and status 1.
C4_NoOutputOnDataStoreError ==
  /\ stdout # <<>> => nq = 5
  /\ raised = "sqlite3.Error" =>
       stdout = <<>> /\ stderr # <<>> /\ pc = "done" /\ exitcode = 1
  /\ (pc = "done" /\ fs # "ok") => raised = "sqlite3.Error"

C4_Witness ==
  pc = "done" /\ fs = "notable" /\ conn = "open" /\ raised = "sqlite3.Error"

\* ------------------------------------------------------------------------
\* C5
\* ------------------------------------------------------------------------

\* C5: no step of the run changes the tasks table or which files exist at
\* the data store path.
C5_ReadOnly == [][pc' # pc => (tasks' = tasks /\ fs' = fs)]_vars

\* ------------------------------------------------------------------------
\* C6
\* ------------------------------------------------------------------------

Unset(v) == v = Null \/ v = <<>>

\* a > b of two timestamps: text against text; null is greater than nothing
\* and nothing is greater than null
Later(a, b) == a # Null /\ b # Null /\ TextLess(b, a)

\* the listing as printed follows completed_tasks
PrintedInListingOrder ==
  \A i \in Entries :
    /\ Field(i, "Task") \in 1..Len(completed_tasks)
    /\ Field(i, "ID") = completed_tasks[Field(i, "Task")].id

\* C6 as stated: of two listed tasks A before B, A.updatedat > B.updatedat,
\* or the two are equal and A.id <= B.id, or B.updatedat is unset (null or
\* empty) and A.updatedat is set.
C6_ListingOrder ==
  /\ PrintedInListingOrder
  /\ \A i \in 1..Len(completed_tasks), j \in 1..Len(completed_tasks) :
       i < j =>
         LET A == completed_tasks[i]
             B == completed_tasks[j]
         IN \/ Later(A.updatedat, B.updatedat)
            \/ A.updatedat = B.updatedat /\ A.id <= B.id
            \/ Unset(B.updatedat) /\ ~Unset(A.updatedat)

\* C6 amended: ... or B.updatedat is null and A.updatedat is the empty
\* string (an empty timestamp is listed before a null one, whatever the ids).
C6_ListingOrderNullLast ==
  /\ PrintedInListingOrder
  /\ \A i \in 1..Len(completed_tasks), j \in 1..Len(completed_tasks) :
       i < j =>
         LET A == completed_tasks[i]
             B == completed_tasks[j]
         IN \/ Later(A.updatedat, B.updatedat)
            \/ A.updatedat = B.updatedat /\ A.id <= B.id
            \/ Unset(B.updatedat) /\ ~Unset(A.updatedat)
            \/ B.updatedat = Null /\ A.updatedat = <<>>

C6_Witness ==
  /\ pc = "done" /\ exitcode = 0
  /\ Len(completed_tasks) = 3
  /\ completed_tasks[1].updatedat = tsB /\ completed_tasks[1].id = 3
  /\ completed_tasks[2].updatedat = <<>> /\ completed_tasks[2].id = 2
  /\ completed_tasks[3].updatedat = Null /\ completed_tasks[3].id = 1
  /\ Cardinality(Entries) = 3

\* ------------------------------------------------------------------------
\* C7
\* ------------------------------------------------------------------------

\* what a timestamp put together from parts denotes, read off the parts:
\* a date without a clock takes a suffix for its time of day
StampValid(p) ==
  /\ p.mo.val \in 1..12
  /\ p.d.val >= 1
  /\ p.d.val <= (IF p.mo.val = 2 THEN p.y.feb
                 ELSE IF p.mo.val \in {4, 6, 9, 11} THEN 30 ELSE 31)
  /\ p.c.h <= 23 /\ p.c.m <= 59

StampShown(p) ==
  LET late == p.c.txt = <<>> /\ p.z = <<"+", "0", "5", ":", "3", "0">>
  IN strftime([year |-> p.y.val, month |-> p.mo.val, day |-> p.d.val,
               hour |-> IF late THEN 5 ELSE p.c.h,
               minute |-> IF late THEN 30 ELSE p.c.m,
               second |-> p.c.s])

\* every timestamp of Stamps with the text format_datetime is to return
StampTable ==
  {<<StampText(p), IF StampValid(p) THEN StampShown(p) ELSE StampText(p)>> : p \in Stamps}

RendersAs(v, shown) ==
  /\ Unset(v) => shown = <<"N", "/", "A">>
  /\ v = <<"2", "0", "2", "4", "-", "0", "1", "-", "1", "5", "T", "1", "0", ":", "3", "0", ":", "0", "0", "Z">> => shown = <<"J", "a", "n", "u", "a", "r", "y", " ", "1", "5", ",", " ", "2", "0", "2", "4", " ", "a", "t", " ", "1", "0", ":", "3", "0", ":", "0", "0">>
  /\ v = <<"2", "0", "2", "4", "-", "0", "1", "-", "1", "6", "T", "0", "9", ":", "0", "0", ":", "0", "0", "Z">> => shown = <<"J", "a", "n", "u", "a", "r", "y", " ", "1", "6", ",", " ", "2", "0", "2", "4", " ", "a", "t", " ", "0", "9", ":", "0", "0", ":", "0", "0">>
  /\ v \in {<<"n", "o", "t", "-", "a", "-", "d", "a", "t", "e">>, <<"Z">>} => shown = v
  /\ \A e \in StampTable : v = e[1] => shown = e[2]

\* C7: every timestamp of every entry is shown as "N/A" when null or empty,
\* as "Month DD, YYYY at HH:MM:SS" when it is an ISO-8601 datetime and as
\* itself otherwise; the only unexpected error a run ends with is the one of
\* a null prompt, and a run whose prompts are text ends with status 0 unless
\* the data store failed.
C7_FormatDatetimeTotal ==
  /\ \A n \in 1..Len(completed_tasks) :
       (\E i \in LinesOf("Task") : stdout[i][2] = n) =>
         LET i == CHOOSE i \in LinesOf("Task") : stdout[i][2] = n
         IN /\ stdout[i + 4][1] = "Created"
            /\ RendersAs(completed_tasks[n].createdat, stdout[i + 4][2])
            /\ stdout[i + 5][1] = "Completed"
            /\ RendersAs(completed_tasks[n].updatedat, stdout[i + 5][2])
  /\ raised = "Exception" => completed_tasks[idx + 1].prompt = Null
  /\ (pc = "done" /\ raised = "none") => exitcode = 0

C7_Witness ==
  /\ pc = "done" /\ exitcode = 0
  /\ Len(completed_tasks) = 1
  /\ completed_tasks[1].createdat = <<"2", "0", "2", "3", "-", "0", "2", "-", "2", "9", "T", "1", "0", ":", "3", "0", ":", "0", "0", "Z">>
  /\ Entries # {}
  /\ \A i \in Entries : Field(i, "Created") = <<"2", "0", "2", "3", "-", "0", "2", "-", "2", "9", "T", "1", "0", ":", "3", "0", ":", "0", "0", "Z">>

\* ------------------------------------------------------------------------
\* C8
\* ------------------------------------------------------------------------

\* C8: the prompt line of every entry shows a prompt of at most 200
\* characters as it is, and a longer one as its first 200 characters
\* followed by "...".
C8_PromptTruncation ==
  \A i \in Entries :
    LET p     == completed_tasks[Field(i, "Task")].prompt
        shown == Field(i, "Prompt")
    IN /\ Len(p) <= PromptLimit => shown = p
       /\ Len(p) > PromptLimit =>
            /\ Len(shown) = PromptLimit + 3
            /\ \A k \in 1..PromptLimit : shown[k] = p[k]
            /\ \A k \in (PromptLimit + 1)..(PromptLimit + 3) : shown[k] = "."

C8_Witness ==
  /\ pc = "done" /\ exitcode = 0
  /\ Len(completed_tasks) = 1
  /\ Len(completed_tasks[1].prompt) = PromptLimit + 1
  /\ \E i \in Entries : Len(Field(i, "Prompt")) = PromptLimit + 3

\* ------------------------------------------------------------------------
\* C9
\* ------------------------------------------------------------------------

\* C9: the five reads return in the order listing, completed, ready, in
\* progress, total, and each returns what the table holds when it is issued,
\* whatever an earlier read returned.
C9_EachReadSeesTheTableAsCommitted ==
  [][/\ nq' # nq => nq' = nq + 1 /\ pc = <<"q1", "q2", "q3", "q4", "q5">>[nq']
     /\ (pc = "q1" /\ nq' = 1) => completed_tasks' = SelectCompleted(tasks)
     /\ (pc = "q2" /\ nq' = 2) => completed_count' = CountStatus(tasks, 1)
     /\ (pc = "q3" /\ nq' = 3) => ready_count' = CountStatus(tasks, 0)
     /\ (pc = "q4" /\ nq' = 4) => in_progress_count' = CountStatus(tasks, 4)
     /\ (pc = "q5" /\ nq' = 5) => total_count' = CountAll(tasks)]_vars

\* a successful run whose printed completed count is not the number of
\* entries it lists
C9_Witness ==
  /\ pc = "done" /\ exitcode = 0 /\ modified
  /\ Cardinality(Entries) = Len(completed_tasks)
  /\ HeaderShown /\ stdout[4][2] # Cardinality(Entries)

\* ------------------------------------------------------------------------
\* C10
\* ------------------------------------------------------------------------

\* C10: the summary block is on standard output only when every entry of the
\* listing has been rendered in full; a run that ends with an unexpected
\* error has status 1, a closed connection, the header with the completed
\* count and the idx entries before the failing one on standard output, the
\* failing entry up to its prompt line, and no summary block.
C10_SummaryAfterListing ==
  /\ HasLine("Task Status Summary") =>
       idx = Len(completed_tasks) /\ Cardinality(Entries) = Len(completed_tasks)
  /\ raised = "Exception" =>
       /\ pc = "done" /\ exitcode = 1 /\ conn = "closed"
       /\ HeaderShown /\ stdout[4][2] = completed_count
       /\ Cardinality(Entries) = idx
       /\ \A n \in 1..idx : \E i \in Entries : Field(i, "Task") = n
       /\ stdout[Len(stdout)][1] = "Order"
       /\ ~HasLine("Task Status Summary")
       /\ stderr # <<>>

C10_Witness ==
  /\ pc = "done" /\ raised = "Exception" /\ exitcode = 1
  /\ idx = 2 /\ Len(completed_tasks) = 3
  /\ Cardinality(Entries) = 2

====
